---- MODULE Spec2Model ----
(***************************************************************************)
(* DataReaderTask (src/data/data_reader_task.cpp): the worker task that    *)
(* polls the P1 meter, decodes the frames it delivers, pushes the packaged *)
(* readings into a bounded FreeRTOS queue with a drop-oldest policy and    *)
(* rotates the meter configuration when nothing was decoded for 30 s.      *)
(*                                                                         *)
(* Three threads of control are modelled: the controller calling begin(),  *)
(* stop() and setInterval(); the worker task running taskFunction(); and   *)
(* the consumer that drains the queue.  Each action is one step between    *)
(* two points where another thread can observe or change shared state.     *)
(***************************************************************************)
EXTENDS Integers, Sequences, FiniteSets, TLC

(***************************************************************************)
(* Bounds of the model.                                                    *)
(***************************************************************************)
QueueCap == 2          \* capacity N of the delivery queue
MaxConfigs == 3        \* P1Meter::getNumConfigs() ranges over 1..MaxConfigs
StepA == 30000         \* a blocking delay lasts StepA or StepB milliseconds
StepB == 30001
WrapLead == 20000      \* the late boot time lies WrapLead ms before the clock wraps
Horizon == 81000       \* no delay of the loop ends, and no begin() or stop() wait
                       \* starts, later than Horizon ms after the late boot time
MaxFrames == 3         \* the frame source completes at most MaxFrames frames
MaxStarts == 2         \* begin() creates a task at most MaxStarts times
MaxBegins == 8         \* the calls of p1Meter.begin() are counted up to MaxBegins

(***************************************************************************)
(* Program constants.                                                      *)
(***************************************************************************)
StallWindow == 30 * 1000       \* taskFunction: 30 seconds without reading data
DefaultReadInterval == 10000   \* constructor: readInterval(10000)
DelayMs == 100                 \* vTaskDelay(pdMS_TO_TICKS(100))
SendTimeoutMs == 100           \* xQueueSendToBack(..., pdMS_TO_TICKS(100))

(***************************************************************************)
(* millis() is an unsigned 32-bit counter.  A value is kept as the pair    *)
(* <<high 16 bits, low 16 bits>> and the arithmetic is done modulo 2^32.   *)
(***************************************************************************)
Word == 2 ^ 16

U32(n) == <<(n \div Word) % Word, n % Word>>

U32Add(a, b) ==
    LET lo == a[2] + b[2]
    IN  <<(a[1] + b[1] + (lo \div Word)) % Word, lo % Word>>

U32Sub(a, b) ==
    LET lo == a[2] - b[2]
        borrow == IF lo < 0 THEN 1 ELSE 0
    IN  <<(a[1] - b[1] - borrow + 2 * Word) % Word, (lo + Word) % Word>>

U32Gt(a, b) == a[1] > b[1] \/ (a[1] = b[1] /\ a[2] > b[2])

Zero32 == <<0, 0>>
EpochStart == U32Sub(Zero32, U32(WrapLead))
DelaySteps == {d \in {StepA, StepB} : d >= DelayMs}
InHorizon(t) == ~U32Gt(U32Sub(t, EpochStart), U32(Horizon))

NULL == "nullptr"
TASK == "DataReaderTask"
QUEUE == "p1DataQueue"
QueueHandles == {NULL, QUEUE}
Intervals == {2 * StepA}
FrameTypes == {"FRAME_TYPE_HDLC", "FRAME_TYPE_ASCII", "FRAME_TYPE_MBUS", "FRAME_TYPE_OTHER"}
NoData == [seq |-> 0]
FrameSizes == {0, 1, 2}   \* frame.getFrameSize(): no byte, one byte, more than one
NoFrameData == [seq |-> 0, type |-> "none", size |-> 0]
NoFrame == [seq |-> 0, bytes |-> 0]
NoPackage == [data |-> 0, timestamp |-> Zero32]

VARIABLES
    now,             \* millis()
    taskHandle,      \* DataReaderTask::taskHandle
    shouldRun,       \* DataReaderTask::shouldRun
    p1DataQueue,     \* DataReaderTask::p1DataQueue
    readInterval,    \* DataReaderTask::readInterval
    lastReadTime,    \* DataReaderTask::lastReadTime
    baudRateIx,      \* DataReaderTask::baudRateIx
    lastDecodedData, \* DataReaderTask::lastDecodedData
    numConfigs,      \* p1Meter.getNumConfigs()
    p1Meter,         \* the frame source: callback registrations, begin() calls, applied config
    debug,           \* Debug counters: frames, failed frames, faulty frame, config index
    queue,           \* contents of the FreeRTOS queue, head first
    pushed,          \* the readings whose package the worker added to the queue, in order
    received,        \* the readings whose package the consumer took from the queue, in order
    taskState,       \* "none", "running" or "deleted": the task created by begin()
    deletes,         \* vTaskDelete calls made on the task created by the last begin()
    wpc,             \* position of the worker in taskFunction
    p1data,          \* handleFrame: the decoded reading
    package,         \* enqueueData: the package being pushed
    oldPackage,      \* enqueueData: the package removed to make room
    frame,           \* handleFrame: the frame that failed to decode, while it is still read
    cpc              \* position of the controller (inside stop() or between calls)

vars == <<now, taskHandle, shouldRun, p1DataQueue, readInterval, lastReadTime,
          baudRateIx, lastDecodedData, numConfigs, p1Meter, debug, queue, pushed,
          received, taskState, deletes, wpc, p1data, package, oldPackage, frame, cpc>>

workerLocals == <<p1data, package, oldPackage, frame>>
queueVars == <<queue, pushed, received>>

(***************************************************************************)
(* The constructor: taskHandle(nullptr), shouldRun(false),                 *)
(* p1DataQueue(nullptr), readInterval(10000), lastReadTime(0),             *)
(* baudRateIx(0).  The object is built at boot, when millis() is 0; the    *)
(* meter has one configuration or MaxConfigs of them.                      *)
(***************************************************************************)
Init ==
    /\ now = Zero32
    /\ taskHandle = NULL
    /\ shouldRun = FALSE
    /\ p1DataQueue = NULL
    /\ readInterval = DefaultReadInterval
    /\ lastReadTime = Zero32
    /\ baudRateIx = 0
    /\ lastDecodedData = NoData
    /\ numConfigs \in {1, MaxConfigs}
    /\ p1Meter = [callbacks |-> 0, begins |-> 0, config |-> -1]
    /\ debug = [frames |-> 0, failedFrames |-> 0, faultyFrame |-> NoFrame, configIx |-> 0]
    /\ queue = <<>>
    /\ pushed = <<>>
    /\ received = <<>>
    /\ taskState = "none"
    /\ deletes = 0
    /\ wpc = "gone"
    /\ p1data = NoData
    /\ package = NoPackage
    /\ oldPackage = NoPackage
    /\ frame = NoFrameData
    /\ cpc = "idle"

\* p1Meter.begin(p1Meter.getConfig(ix)); its result ok is logged and not kept
MeterBegin(m, ix, ok) ==
    [m EXCEPT !.begins = IF @ < MaxBegins THEN @ + 1 ELSE @, !.config = ix]

\* a variant of begin without the test for a running task
BeginUnguarded(dataQueue, ok, created) ==
    /\ cpc = "idle"
    /\ p1Meter' = MeterBegin([p1Meter EXCEPT !.callbacks = @ + 1], baudRateIx, ok)
    /\ p1DataQueue' = dataQueue
    /\ shouldRun' = TRUE
    /\ taskHandle' = TASK
    /\ taskState' = "running"
    /\ deletes' = 0
    /\ wpc' = "loop"
    /\ UNCHANGED <<now, readInterval, lastReadTime, baudRateIx, lastDecodedData,
                   numConfigs, debug, queueVars, workerLocals, cpc>>

(***************************************************************************)
(* begin(dataQueue).  ok is the result of p1Meter.begin, created that of   *)
(* xTaskCreatePinnedToCore: neither is tested.  A creation that fails      *)
(* starts no task and does not write taskHandle, and begin() has set       *)
(* p1DataQueue and shouldRun all the same.                                 *)
(***************************************************************************)
Begin(dataQueue, ok, created) ==
    /\ cpc = "idle"
    /\ IF taskHandle # NULL
       THEN UNCHANGED vars
       ELSE /\ p1Meter.callbacks < MaxStarts
            /\ InHorizon(now)
            /\ p1Meter' = MeterBegin([p1Meter EXCEPT !.callbacks = @ + 1], baudRateIx, ok)
            /\ p1DataQueue' = dataQueue
            /\ shouldRun' = TRUE
            /\ IF created
               THEN /\ taskHandle' = TASK
                    /\ taskState' = "running"
                    /\ deletes' = 0
                    /\ wpc' = "loop"
               ELSE UNCHANGED <<taskHandle, taskState, deletes, wpc>>
            /\ UNCHANGED <<now, readInterval, lastReadTime, baudRateIx, lastDecodedData,
                           numConfigs, debug, queueVars, workerLocals, cpc>>

(***************************************************************************)
(* stop(): the early return or the stop request, then the 100 ms wait,     *)
(* then the delete through taskHandle.  The worker never clears            *)
(* taskHandle, so the handle is still set when the worker has deleted      *)
(* itself during the wait; the second vTaskDelete then acts on a task that *)
(* no longer exists.                                                       *)
(***************************************************************************)
Stop ==
    /\ cpc = "idle"
    /\ IF taskHandle = NULL
       THEN UNCHANGED vars
       ELSE /\ shouldRun' = FALSE
            /\ cpc' = "stopDelay"
            /\ UNCHANGED <<now, taskHandle, p1DataQueue, readInterval, lastReadTime,
                           baudRateIx, lastDecodedData, numConfigs, p1Meter, debug,
                           queueVars, taskState, deletes, wpc, workerLocals>>

StopDelay(d) ==
    /\ cpc = "stopDelay"
    /\ InHorizon(now)
    /\ now' = U32Add(now, U32(d))
    /\ cpc' = "stopCheck"
    /\ UNCHANGED <<taskHandle, shouldRun, p1DataQueue, readInterval, lastReadTime,
                   baudRateIx, lastDecodedData, numConfigs, p1Meter, debug, queueVars,
                   taskState, deletes, wpc, workerLocals>>

StopDelete ==
    /\ cpc = "stopCheck"
    /\ IF taskHandle # NULL
       THEN /\ deletes' = deletes + 1
            /\ taskState' = "deleted"
            /\ wpc' = "gone"
            /\ p1data' = NoData
            /\ package' = NoPackage
            /\ oldPackage' = NoPackage
            /\ frame' = NoFrameData
            /\ taskHandle' = NULL
       ELSE UNCHANGED <<deletes, taskState, wpc, workerLocals, taskHandle>>
    /\ cpc' = "idle"
    /\ UNCHANGED <<now, shouldRun, p1DataQueue, readInterval, lastReadTime, baudRateIx,
                   lastDecodedData, numConfigs, p1Meter, debug, queueVars>>

(***************************************************************************)
(* setInterval(interval)                                                   *)
(***************************************************************************)
SetInterval(interval) ==
    /\ cpc = "idle"
    /\ readInterval' = interval
    /\ UNCHANGED <<now, taskHandle, shouldRun, p1DataQueue, lastReadTime, baudRateIx,
                   lastDecodedData, numConfigs, p1Meter, debug, queueVars, taskState,
                   deletes, wpc, workerLocals, cpc>>

(***************************************************************************)
(* The consumer: xQueueReceive on the shared queue handle.                 *)
(***************************************************************************)
Pop ==
    /\ IF queue # <<>>
       THEN /\ received' = Append(received, Head(queue).data)
            /\ queue' = Tail(queue)
       ELSE UNCHANGED <<queue, received>>
    /\ UNCHANGED <<now, taskHandle, shouldRun, p1DataQueue, readInterval, lastReadTime,
                   baudRateIx, lastDecodedData, numConfigs, p1Meter, debug, pushed,
                   taskState, deletes, wpc, workerLocals, cpc>>

(***************************************************************************)
(* taskFunction: while (task->shouldRun) ... vTaskDelete(NULL)             *)
(***************************************************************************)
Running == taskState = "running"

LoopTest ==
    /\ Running
    /\ wpc = "loop"
    /\ wpc' = IF shouldRun THEN "update" ELSE "exit"
    /\ UNCHANGED <<now, taskHandle, shouldRun, p1DataQueue, readInterval, lastReadTime,
                   baudRateIx, lastDecodedData, numConfigs, p1Meter, debug, queueVars,
                   taskState, deletes, workerLocals, cpc>>

SelfDelete ==
    /\ Running
    /\ wpc = "exit"
    /\ deletes' = deletes + 1
    /\ taskState' = "deleted"
    /\ wpc' = "gone"
    /\ UNCHANGED <<now, taskHandle, shouldRun, p1DataQueue, readInterval, lastReadTime,
                   baudRateIx, lastDecodedData, numConfigs, p1Meter, debug, queueVars,
                   workerLocals, cpc>>

(***************************************************************************)
(* p1Meter.update() with no complete frame.                                *)
(***************************************************************************)
UpdateNoFrame ==
    /\ Running
    /\ wpc = "update"
    /\ wpc' = "stall"
    /\ UNCHANGED <<now, taskHandle, shouldRun, p1DataQueue, readInterval, lastReadTime,
                   baudRateIx, lastDecodedData, numConfigs, p1Meter, debug, queueVars,
                   taskState, deletes, workerLocals, cpc>>

(***************************************************************************)
(* handleFrame: the switch on the frame type.  decodes is the result of    *)
(* decodeBuffer for the frame, which only the HDLC and ASCII cases call.   *)
(***************************************************************************)
\* a variant that hands M-Bus frames to a decoder as well
IsDecodedMBus(type, decodes) ==
    CASE type = "FRAME_TYPE_HDLC" -> decodes
      [] type = "FRAME_TYPE_ASCII" -> decodes
      [] type = "FRAME_TYPE_MBUS" -> decodes
      [] OTHER -> FALSE

IsDecoded(type, decodes) ==
    CASE type = "FRAME_TYPE_HDLC" -> decodes
      [] type = "FRAME_TYPE_ASCII" -> decodes
      [] type = "FRAME_TYPE_MBUS" -> FALSE
      [] OTHER -> FALSE

\* the frames handed to the callback are numbered in the order of arrival
FrameSeq == debug.frames + debug.failedFrames + 1

\* a variant of handleFrame that sets lastReadTime before the test of isDecoded
HandleFrameTimerAlways(type, size, decodes) ==
    /\ Running
    /\ wpc = "update"
    /\ FrameSeq <= MaxFrames
    /\ lastReadTime' = now
    /\ IF IsDecoded(type, decodes)
       THEN /\ p1data' = [seq |-> FrameSeq]
            /\ wpc' = "addFrame"
            /\ UNCHANGED frame
       ELSE /\ frame' = [seq |-> FrameSeq, type |-> type, size |-> size]
            /\ wpc' = "addFailed"
            /\ UNCHANGED p1data
    /\ UNCHANGED <<now, taskHandle, shouldRun, p1DataQueue, readInterval, baudRateIx,
                   lastDecodedData, numConfigs, p1Meter, debug, queueVars, taskState,
                   deletes, package, oldPackage, cpc>>

(***************************************************************************)
(* p1Meter.update() completing a frame: the callback runs handleFrame      *)
(* through the decoders, which write only its locals p1data and isDecoded. *)
(* Every write of shared state that follows is a step of its own, because  *)
(* stop() can delete the task between any two of them.                     *)
(***************************************************************************)
HandleFrame(type, size, decodes) ==
    /\ Running
    /\ wpc = "update"
    /\ FrameSeq <= MaxFrames
    /\ IF IsDecoded(type, decodes)
       THEN /\ p1data' = [seq |-> FrameSeq]
            /\ wpc' = "addFrame"
            /\ UNCHANGED frame
       ELSE /\ frame' = [seq |-> FrameSeq, type |-> type, size |-> size]
            /\ wpc' = "addFailed"
            /\ UNCHANGED p1data
    /\ UNCHANGED <<now, taskHandle, shouldRun, p1DataQueue, readInterval, lastReadTime,
                   baudRateIx, lastDecodedData, numConfigs, p1Meter, debug, queueVars,
                   taskState, deletes, package, oldPackage, cpc>>

\* handleFrame, decoded: Debug::addFrame()
AddFrame ==
    /\ Running
    /\ wpc = "addFrame"
    /\ debug' = [debug EXCEPT !.frames = @ + 1]
    /\ wpc' = "stamp"
    /\ UNCHANGED <<now, taskHandle, shouldRun, p1DataQueue, readInterval, lastReadTime,
                   baudRateIx, lastDecodedData, numConfigs, p1Meter, queueVars, taskState,
                   deletes, workerLocals, cpc>>

\* handleFrame, not decoded: Debug::addFailedFrame()
AddFailedFrame ==
    /\ Running
    /\ wpc = "addFailed"
    /\ debug' = [debug EXCEPT !.failedFrames = @ + 1]
    /\ wpc' = "clear"
    /\ UNCHANGED <<now, taskHandle, shouldRun, p1DataQueue, readInterval, lastReadTime,
                   baudRateIx, lastDecodedData, numConfigs, p1Meter, queueVars, taskState,
                   deletes, workerLocals, cpc>>

\* a variant that goes on to enqueueData without setting lastReadTime
StampTimeSkipped ==
    /\ Running
    /\ wpc = "stamp"
    /\ wpc' = "enqueue"
    /\ UNCHANGED <<now, taskHandle, shouldRun, p1DataQueue, readInterval, lastReadTime,
                   baudRateIx, lastDecodedData, numConfigs, p1Meter, debug, queueVars,
                   taskState, deletes, workerLocals, cpc>>

\* handleFrame, decoded: lastReadTime = millis(); p1data.setTimeStamp()
StampTime ==
    /\ Running
    /\ wpc = "stamp"
    /\ lastReadTime' = now
    /\ wpc' = "enqueue"
    /\ UNCHANGED <<now, taskHandle, shouldRun, p1DataQueue, readInterval, baudRateIx,
                   lastDecodedData, numConfigs, p1Meter, debug, queueVars, taskState,
                   deletes, workerLocals, cpc>>

\* handleFrame, not decoded: Debug::clearFaultyFrameData() and the first test of
\* i < frameSize, which ends handleFrame for a frame of no bytes
ClearFaultyFrame ==
    /\ Running
    /\ wpc = "clear"
    /\ debug' = [debug EXCEPT !.faultyFrame = NoFrame]
    /\ IF 0 < frame.size
       THEN /\ wpc' = "copy"
            /\ UNCHANGED frame
       ELSE /\ wpc' = "stall"
            /\ frame' = NoFrameData
    /\ UNCHANGED <<now, taskHandle, shouldRun, p1DataQueue, readInterval, lastReadTime,
                   baudRateIx, lastDecodedData, numConfigs, p1Meter, queueVars, taskState,
                   deletes, p1data, package, oldPackage, cpc>>

\* handleFrame, not decoded: one pass of the loop, Debug::addFaultyFrameData of
\* byte i of the frame, and the test of i < frameSize that follows it; i is the
\* number of bytes the record holds
CopyFaultyFrame ==
    /\ Running
    /\ wpc = "copy"
    /\ debug' = [debug EXCEPT !.faultyFrame = [seq |-> frame.seq,
                                               bytes |-> debug.faultyFrame.bytes + 1]]
    /\ IF debug.faultyFrame.bytes + 1 < frame.size
       THEN UNCHANGED <<wpc, frame>>
       ELSE /\ frame' = NoFrameData
            /\ wpc' = "stall"
    /\ UNCHANGED <<now, taskHandle, shouldRun, p1DataQueue, readInterval, lastReadTime,
                   baudRateIx, lastDecodedData, numConfigs, p1Meter, queueVars, taskState,
                   deletes, p1data, package, oldPackage, cpc>>

(***************************************************************************)
(* enqueueData.  The FreeRTOS queue calls are each atomic; the consumer    *)
(* and the controller can run between them.                                *)
(***************************************************************************)
\* a variant that reports one free slot too many
SpacesAvailableOffByOne(q) == QueueCap + 1 - Len(q)

SpacesAvailable(q) == QueueCap - Len(q)

\* a variant that takes the item at the tail
ReceiveNewest(q) == SubSeq(q, 1, Len(q) - 1)

\* xQueueReceive(p1DataQueue, &oldPackage, 0) takes the item at the head
ReceiveOldest(q) == Tail(q)

\* xQueueSendToBack(p1DataQueue, &package, ...) puts the item at the tail
SendToBack(q, pkg) == Append(q, pkg)

(***************************************************************************)
(* The payload that createP1JWTPayload(p1data, package.data, MAX_DATA_SIZE)*)
(* leaves in package.data when it returns false: the packaged reading,     *)
(* which stands here for the serialized reading by its sequence number.    *)
(***************************************************************************)
P1JWTPayload(p1d) == p1d.seq

\* a variant without the return at line 78: the failure is logged and the
\* push goes on
EnqueueDataNoReturn(jwt) ==
    /\ Running
    /\ wpc = "enqueue"
    /\ IF p1DataQueue = NULL
       THEN /\ wpc' = "store"
            /\ UNCHANGED <<package, oldPackage>>
       ELSE /\ package' = [data |-> P1JWTPayload(p1data), timestamp |-> now]
            /\ oldPackage' = NoPackage
            /\ wpc' = IF SpacesAvailable(queue) = 0 THEN "evict" ELSE "send"
    /\ UNCHANGED <<now, taskHandle, shouldRun, p1DataQueue, readInterval, lastReadTime,
                   baudRateIx, lastDecodedData, numConfigs, p1Meter, debug, queueVars,
                   taskState, deletes, p1data, frame, cpc>>

(***************************************************************************)
(* From the entry of enqueueData to the test of the free space.  jwt is    *)
(* the result of createP1JWTPayload: on true the code logs "Failed to      *)
(* create JWT" and returns (lines 76-78); on false package.data holds the  *)
(* payload of p1data, the package is stamped with millis() and the free    *)
(* space of the queue is tested.                                           *)
(***************************************************************************)
EnqueueData(jwt) ==
    /\ Running
    /\ wpc = "enqueue"
    /\ IF p1DataQueue = NULL
       THEN /\ wpc' = "store"
            /\ UNCHANGED <<package, oldPackage>>
       ELSE IF jwt
       THEN /\ wpc' = "store"
            /\ UNCHANGED <<package, oldPackage>>
       ELSE /\ package' = [data |-> P1JWTPayload(p1data), timestamp |-> now]
            /\ oldPackage' = NoPackage
            /\ wpc' = IF SpacesAvailable(queue) = 0 THEN "evict" ELSE "send"
    /\ UNCHANGED <<now, taskHandle, shouldRun, p1DataQueue, readInterval, lastReadTime,
                   baudRateIx, lastDecodedData, numConfigs, p1Meter, debug, queueVars,
                   taskState, deletes, p1data, frame, cpc>>

\* a variant that copies the oldest item and leaves it in the queue (a peek)
RemoveOldestPeek ==
    /\ Running
    /\ wpc = "evict"
    /\ IF queue # <<>>
       THEN /\ oldPackage' = Head(queue)
            /\ queue' = queue
       ELSE UNCHANGED <<oldPackage, queue>>
    /\ wpc' = "send"
    /\ UNCHANGED <<now, taskHandle, shouldRun, p1DataQueue, readInterval, lastReadTime,
                   baudRateIx, lastDecodedData, numConfigs, p1Meter, debug, pushed,
                   received, taskState, deletes, p1data, package, frame, cpc>>

\* "Queue is full, remove the oldest item first": a receive that does not wait
RemoveOldest ==
    /\ Running
    /\ wpc = "evict"
    /\ IF queue # <<>>
       THEN /\ oldPackage' = Head(queue)
            /\ queue' = ReceiveOldest(queue)
       ELSE UNCHANGED <<oldPackage, queue>>
    /\ wpc' = "send"
    /\ UNCHANGED <<now, taskHandle, shouldRun, p1DataQueue, readInterval, lastReadTime,
                   baudRateIx, lastDecodedData, numConfigs, p1Meter, debug, pushed,
                   received, taskState, deletes, p1data, package, frame, cpc>>

\* xQueueSendToBack: pdPASS when there is room, else a failure after the timeout;
\* enqueueData returns and its locals end with it
AddToQueue ==
    /\ Running
    /\ wpc = "send"
    /\ IF SpacesAvailable(queue) > 0
       THEN /\ queue' = SendToBack(queue, package)
            /\ pushed' = Append(pushed, package.data)
            /\ now' = now
       ELSE /\ now' = U32Add(now, U32(SendTimeoutMs))
            /\ UNCHANGED <<queue, pushed>>
    /\ package' = NoPackage
    /\ oldPackage' = NoPackage
    /\ wpc' = "store"
    /\ UNCHANGED <<taskHandle, shouldRun, p1DataQueue, readInterval, lastReadTime,
                   baudRateIx, lastDecodedData, numConfigs, p1Meter, debug, received,
                   taskState, deletes, p1data, frame, cpc>>

\* handleFrame after enqueueData returned: lastDecodedData = p1data, and the
\* locals of the callback end with it
StoreLast ==
    /\ Running
    /\ wpc = "store"
    /\ lastDecodedData' = p1data
    /\ p1data' = NoData
    /\ wpc' = "stall"
    /\ UNCHANGED <<now, taskHandle, shouldRun, p1DataQueue, readInterval, lastReadTime,
                   baudRateIx, numConfigs, p1Meter, debug, queueVars, taskState, deletes,
                   package, oldPackage, frame, cpc>>

(***************************************************************************)
(* The stall check of taskFunction and rotateP1MeterBaudRate.              *)
(***************************************************************************)
\* variants: the window taken from readInterval; the index stepped without the wrap
StalledByInterval(t, last) == U32Gt(U32Sub(t, last), U32(readInterval))

NextBaudRateIxNoWrap(ix, n) == ix + 1

\* a variant that stays on the last position
NextBaudRateIxStuck(ix, n) == IF ix + 1 < n THEN ix + 1 ELSE ix

\* a variant that wraps one position too late
NextBaudRateIxLateWrap(ix, n) == (ix + 1) % (n + 1)

\* a variant that compares the time with the end of the window, without the subtraction
StalledByDeadline(t, last) == U32Gt(t, U32Add(last, U32(StallWindow)))

Stalled(t, last) == U32Gt(U32Sub(t, last), U32(StallWindow))

NextBaudRateIx(ix, n) == (ix + 1) % n

\* the test of taskFunction: millis() - task->lastReadTime > 30 * 1000
StallCheck ==
    /\ Running
    /\ wpc = "stall"
    /\ wpc' = IF Stalled(now, lastReadTime) THEN "rotate" ELSE "delay"
    /\ UNCHANGED <<now, taskHandle, shouldRun, p1DataQueue, readInterval, lastReadTime,
                   baudRateIx, lastDecodedData, numConfigs, p1Meter, debug, queueVars,
                   taskState, deletes, workerLocals, cpc>>

\* a variant of rotateP1MeterBaudRate without the test of getNumConfigs
RotateIndexUntested ==
    /\ Running
    /\ wpc = "rotate"
    /\ baudRateIx' = NextBaudRateIx(baudRateIx, numConfigs)
    /\ wpc' = "rotateDebug"
    /\ UNCHANGED <<now, taskHandle, shouldRun, p1DataQueue, readInterval, lastReadTime,
                   lastDecodedData, numConfigs, p1Meter, debug, queueVars, taskState,
                   deletes, workerLocals, cpc>>

(***************************************************************************)
(* rotateP1MeterBaudRate, one step for each write of shared state, because *)
(* stop() can delete the task between any two of them: the index, the      *)
(* Debug config index, p1Meter.begin, and lastReadTime = millis().         *)
(***************************************************************************)
RotateIndex ==
    /\ Running
    /\ wpc = "rotate"
    /\ IF numConfigs > 1
       THEN /\ baudRateIx' = NextBaudRateIx(baudRateIx, numConfigs)
            /\ wpc' = "rotateDebug"
       ELSE /\ wpc' = "rotateDone"
            /\ UNCHANGED baudRateIx
    /\ UNCHANGED <<now, taskHandle, shouldRun, p1DataQueue, readInterval, lastReadTime,
                   lastDecodedData, numConfigs, p1Meter, debug, queueVars, taskState,
                   deletes, workerLocals, cpc>>

\* Debug::setP1MeterConfigIndex(baudRateIx)
RotateDebug ==
    /\ Running
    /\ wpc = "rotateDebug"
    /\ debug' = [debug EXCEPT !.configIx = baudRateIx]
    /\ wpc' = "rotateBegin"
    /\ UNCHANGED <<now, taskHandle, shouldRun, p1DataQueue, readInterval, lastReadTime,
                   baudRateIx, lastDecodedData, numConfigs, p1Meter, queueVars, taskState,
                   deletes, workerLocals, cpc>>

\* a variant that leaves the loop when p1Meter.begin failed
RotateBeginGiveUp(ok) ==
    /\ Running
    /\ wpc = "rotateBegin"
    /\ p1Meter' = MeterBegin(p1Meter, baudRateIx, ok)
    /\ wpc' = IF ok THEN "rotateDone" ELSE "exit"
    /\ UNCHANGED <<now, taskHandle, shouldRun, p1DataQueue, readInterval, lastReadTime,
                   baudRateIx, lastDecodedData, numConfigs, debug, queueVars, taskState,
                   deletes, workerLocals, cpc>>

\* p1Meter.begin(p1Meter.getConfig(baudRateIx)); a failure is logged
RotateBegin(ok) ==
    /\ Running
    /\ wpc = "rotateBegin"
    /\ p1Meter' = MeterBegin(p1Meter, baudRateIx, ok)
    /\ wpc' = "rotateDone"
    /\ UNCHANGED <<now, taskHandle, shouldRun, p1DataQueue, readInterval, lastReadTime,
                   baudRateIx, lastDecodedData, numConfigs, debug, queueVars, taskState,
                   deletes, workerLocals, cpc>>

\* the last statement of rotateP1MeterBaudRate: lastReadTime = millis()
RotateDone ==
    /\ Running
    /\ wpc = "rotateDone"
    /\ lastReadTime' = now
    /\ wpc' = "delay"
    /\ UNCHANGED <<now, taskHandle, shouldRun, p1DataQueue, readInterval, baudRateIx,
                   lastDecodedData, numConfigs, p1Meter, debug, queueVars, taskState,
                   deletes, workerLocals, cpc>>

\* vTaskDelay(pdMS_TO_TICKS(100)) at the end of the loop body
LoopDelay(d) ==
    /\ Running
    /\ wpc = "delay"
    /\ InHorizon(U32Add(now, U32(d)))
    /\ now' = U32Add(now, U32(d))
    /\ wpc' = "loop"
    /\ UNCHANGED <<taskHandle, shouldRun, p1DataQueue, readInterval, lastReadTime,
                   baudRateIx, lastDecodedData, numConfigs, p1Meter, debug, queueVars,
                   taskState, deletes, workerLocals, cpc>>

Next ==
    \/ \E q \in QueueHandles, ok \in BOOLEAN, created \in BOOLEAN : Begin(q, ok, created)
    \/ Stop
    \/ \E d \in DelaySteps : StopDelay(d)
    \/ StopDelete
    \/ \E i \in Intervals : SetInterval(i)
    \/ Pop
    \/ LoopTest
    \/ SelfDelete
    \/ UpdateNoFrame
    \/ \E type \in FrameTypes, size \in FrameSizes, decodes \in BOOLEAN :
          HandleFrame(type, size, decodes)
    \/ AddFrame
    \/ AddFailedFrame
    \/ StampTime
    \/ ClearFaultyFrame
    \/ CopyFaultyFrame
    \/ \E jwt \in BOOLEAN : EnqueueData(jwt)
    \/ RemoveOldest
    \/ AddToQueue
    \/ StoreLast
    \/ StallCheck
    \/ RotateIndex
    \/ RotateDebug
    \/ \E ok \in BOOLEAN : RotateBegin(ok)
    \/ RotateDone
    \/ \E d \in DelaySteps : LoopDelay(d)

Spec == Init /\ [][Next]_vars

(***************************************************************************)
(* The same object when begin() is first called late in the uptime of the  *)
(* device: the constructor ran at boot and left lastReadTime at 0, and     *)
(* millis() has reached EpochStart, WrapLead ms before the 32-bit counter  *)
(* wraps to zero.                                                          *)
(***************************************************************************)
InitLate ==
    /\ now = EpochStart
    /\ taskHandle = NULL
    /\ shouldRun = FALSE
    /\ p1DataQueue = NULL
    /\ readInterval = DefaultReadInterval
    /\ lastReadTime = Zero32
    /\ baudRateIx = 0
    /\ lastDecodedData = NoData
    /\ numConfigs \in {1, MaxConfigs}
    /\ p1Meter = [callbacks |-> 0, begins |-> 0, config |-> -1]
    /\ debug = [frames |-> 0, failedFrames |-> 0, faultyFrame |-> NoFrame, configIx |-> 0]
    /\ queue = <<>>
    /\ pushed = <<>>
    /\ received = <<>>
    /\ taskState = "none"
    /\ deletes = 0
    /\ wpc = "gone"
    /\ p1data = NoData
    /\ package = NoPackage
    /\ oldPackage = NoPackage
    /\ frame = NoFrameData
    /\ cpc = "idle"

SpecLate == InitLate /\ [][Next]_vars

\* the milliseconds from EpochStart to t, for a time t of the modelled period
Offset(t) == LET d == U32Sub(t, EpochStart) IN d[1] * Word + d[2]

(***************************************************************************)
(* The program over unbounded time when stop() is never requested: the     *)
(* controller calls begin(), whose task is created, the worker runs and    *)
(* the consumer drains the queue.  A blocking delay lasts at least its     *)
(* 100 ms; here it lasts LongStep, a quarter of the range of millis(), so  *)
(* that the wrapping clock returns to the values it had and time can       *)
(* advance for ever.  The scheduler runs the worker task whenever it is    *)
(* ready and ends its vTaskDelay: the steps of the worker are weakly fair. *)
(* The controller and the consumer may stay idle.                          *)
(***************************************************************************)
LongStep == 2 ^ 30
LongSteps == {d \in {LongStep} : d >= DelayMs}

\* vTaskDelay(pdMS_TO_TICKS(100)) at the end of the loop body
LoopDelayLong(d) ==
    /\ Running
    /\ wpc = "delay"
    /\ now' = U32Add(now, U32(d))
    /\ wpc' = "loop"
    /\ UNCHANGED <<taskHandle, shouldRun, p1DataQueue, readInterval, lastReadTime,
                   baudRateIx, lastDecodedData, numConfigs, p1Meter, debug, queueVars,
                   taskState, deletes, workerLocals, cpc>>

\* the body of the loop; the vTaskDelete(NULL) behind the loop is reached only
\* after stop() has cleared shouldRun
WorkerLive ==
    \/ LoopTest
    \/ UpdateNoFrame
    \/ \E type \in FrameTypes, size \in FrameSizes, decodes \in BOOLEAN :
          HandleFrame(type, size, decodes)
    \/ AddFrame
    \/ AddFailedFrame
    \/ StampTime
    \/ ClearFaultyFrame
    \/ CopyFaultyFrame
    \/ \E jwt \in BOOLEAN : EnqueueData(jwt)
    \/ RemoveOldest
    \/ AddToQueue
    \/ StoreLast
    \/ StallCheck
    \/ RotateIndex
    \/ RotateDebug
    \/ \E ok \in BOOLEAN : RotateBegin(ok)
    \/ RotateDone
    \/ \E d \in LongSteps : LoopDelayLong(d)

NextLive ==
    \/ \E q \in QueueHandles, ok \in BOOLEAN : Begin(q, ok, TRUE)
    \/ Pop
    \/ WorkerLive

SpecLive == Init /\ [][NextLive]_vars /\ WF_vars(WorkerLive)

(***************************************************************************)
(* Steps of the worker, told apart by its position before and after.       *)
(***************************************************************************)
StallStep == Running /\ wpc = "stall" /\ wpc' \in {"rotate", "delay"}
IndexStep == Running /\ wpc = "rotate" /\ wpc' \in {"rotateDebug", "rotateDone"}
RotateBeginStep == Running /\ wpc = "rotateBegin" /\ wpc' = "rotateDone"
ResetStep == Running /\ wpc = "rotateDone" /\ wpc' = "delay"
EvictStep == Running /\ wpc = "evict" /\ wpc' = "send"
SendStep == Running /\ wpc = "send" /\ wpc' = "store"
DispatchStep == Running /\ wpc = "update" /\ wpc' \in {"addFrame", "addFailed"}
StampStep == Running /\ wpc = "stamp" /\ wpc' = "enqueue"
FailedStep ==
    /\ Running
    /\ \/ wpc = "addFailed" /\ wpc' = "clear"
       \/ wpc = "clear" /\ wpc' \in {"copy", "stall"}
       \/ wpc = "copy" /\ debug' # debug

Data(q) == [i \in 1..Len(q) |-> q[i].data]
LastN(s, n) == SubSeq(s, Len(s) - n + 1, Len(s))
UnsupportedTypes == {"FRAME_TYPE_MBUS", "FRAME_TYPE_OTHER"}

(***************************************************************************)
(* C1  Queue bound: whatever pushes of the worker and pops of the consumer *)
(* have happened, the queue never holds more than QueueCap packages.       *)
(***************************************************************************)
C1_QueueBound == Len(queue) <= QueueCap

\* a push has found the queue full and the queue is full again after it
C1_Witness == Len(queue) = QueueCap /\ Len(pushed) > QueueCap /\ wpc = "store"

(***************************************************************************)
(* C2  FIFO with drop-oldest: the eviction of a push removes the head, the *)
(* send appends the new package at the tail, a pop hands out the head; and *)
(* while nothing was popped, a push that brings the number of pushed       *)
(* packages above QueueCap leaves exactly the last QueueCap of them, in    *)
(* the order they were pushed.                                             *)
(***************************************************************************)
C2_DropOldestFifo ==
    [][ /\ (EvictStep /\ queue # <<>>) => queue' = Tail(queue)
        /\ SendStep => queue' = Append(queue, package)
        /\ (SendStep /\ received = <<>> /\ Len(pushed') > QueueCap)
              => Data(queue') = LastN(pushed', QueueCap)
        /\ received' # received
              => (received' = Append(received, Head(queue).data) /\ queue' = Tail(queue))
      ]_vars

\* QueueCap + 1 packages were pushed, none was popped, the last QueueCap remain
C2_Witness ==
    /\ wpc = "store"
    /\ received = <<>>
    /\ Len(pushed) = QueueCap + 1
    /\ Data(queue) = LastN(pushed, QueueCap)

(***************************************************************************)
(* C3  Stall-triggered rotation: the stall check calls the rotation        *)
(* exactly when more than the stall window has elapsed since lastReadTime; *)
(* the rotation is entered in no other way, advances the index by exactly  *)
(* one modulo the number of configurations and ends by restarting the      *)
(* window; the index changes in no other step.  With three configurations  *)
(* and no decoded frame the index goes 0, 1, 2 and back to 0.              *)
(***************************************************************************)
C3_StallRotation ==
    [][ /\ StallStep => (wpc' = "rotate" <=> U32Gt(U32Sub(now, lastReadTime), U32(30000)))
        /\ (Running /\ wpc # "rotate" /\ wpc' = "rotate") => StallStep
        /\ (IndexStep /\ numConfigs > 1) => baudRateIx' = (baudRateIx + 1) % numConfigs
        /\ ResetStep => lastReadTime' = now
        /\ baudRateIx' # baudRateIx => IndexStep
      ]_vars

\* three rotations without a decoded frame and without a restart: the index is 0 again
C3_Witness ==
    /\ numConfigs = 3
    /\ debug.frames = 0
    /\ p1Meter.callbacks = 1
    /\ p1Meter.begins = 4
    /\ baudRateIx = 0

(***************************************************************************)
(* C4  Single-candidate stability: with one configuration the index never  *)
(* changes and the frame source is configured only by begin(); a stall     *)
(* check that finds the window exceeded still sets lastReadTime to now.    *)
(***************************************************************************)
C4_SingleCandidate ==
    [][ numConfigs = 1 =>
          /\ baudRateIx' = baudRateIx
          /\ (Running /\ Running') => p1Meter' = p1Meter
          /\ (StallStep /\ U32Gt(U32Sub(now, lastReadTime), U32(30000)))
                => wpc' = "rotate"
          /\ IndexStep => wpc' = "rotateDone"
          /\ ResetStep => lastReadTime' = now
      ]_vars

\* one configuration, no frame decoded, and a stall check has restarted the window
C4_Witness ==
    /\ numConfigs = 1
    /\ debug.frames = 0
    /\ wpc = "delay"
    /\ lastReadTime = now
    /\ now # Zero32
    /\ p1Meter.begins = p1Meter.callbacks

(***************************************************************************)
(* C5  Timer reset on success: a successful decode sets lastReadTime to    *)
(* the current time, and the stall check that runs at that same time       *)
(* neither rotates the configuration nor touches the frame source.         *)
(***************************************************************************)
C5_TimerResetOnSuccess ==
    [][ /\ StampStep => lastReadTime' = now
        /\ (Running /\ Running' /\ wpc \in {"enqueue", "evict", "send", "store"}
               /\ wpc' # wpc)
              => (now' = now /\ lastReadTime' = lastReadTime)
        /\ (Running /\ wpc = "store" /\ wpc' # "store" /\ Running') => wpc' = "stall"
        /\ (StallStep /\ lastReadTime = now) => wpc' = "delay"
      ]_vars

\* more than a stall window after the start the first frame was decoded, and the
\* stall check of that iteration has left the configuration alone
C5_Witness ==
    /\ numConfigs > 1
    /\ wpc = "delay"
    /\ debug.frames = 1
    /\ lastDecodedData.seq = debug.frames + debug.failedFrames
    /\ lastReadTime = now
    /\ U32Gt(now, U32(StallWindow))
    /\ p1Meter.begins = 1

(***************************************************************************)
(* C6  Control-surface idempotence: while a task handle is held, no step   *)
(* registers the frame callback again, replaces the queue handle, creates  *)
(* a worker or configures the frame source other than the worker's own     *)
(* stall check, so a begin() in that state changes nothing; and with no    *)
(* task handle and the controller between calls, no step clears the run    *)
(* flag, waits or deletes a task, so a stop() in that state changes        *)
(* nothing.                                                                *)
(***************************************************************************)
C6_Idempotence ==
    [][ /\ taskHandle # NULL =>
              /\ p1Meter'.callbacks = p1Meter.callbacks
              /\ p1DataQueue' = p1DataQueue
              /\ p1Meter' # p1Meter => RotateBeginStep
              /\ shouldRun' => shouldRun
              /\ deletes' >= deletes
              /\ (Running /\ wpc' = "loop" /\ wpc # "loop") => wpc = "delay"
              /\ Begin(QUEUE, TRUE, TRUE) => UNCHANGED vars
        /\ (taskHandle = NULL /\ cpc = "idle") =>
              /\ cpc' = "idle"
              /\ now' = now
              /\ shouldRun => shouldRun'
              /\ deletes' <= deletes
              /\ Stop => UNCHANGED vars
      ]_vars

\* a worker is running on no queue and the controller is between calls, so that
\* begin(QUEUE) returns early; the task of an earlier start was stopped before
C6_Witness ==
    /\ taskHandle # NULL
    /\ cpc = "idle"
    /\ wpc = "stall"
    /\ p1DataQueue = NULL
    /\ p1Meter.callbacks = 2

(***************************************************************************)
(* C7  Exactly-once release on stop: the task created by begin() is        *)
(* deleted at most once, and exactly once when stop() has returned.        *)
(***************************************************************************)
C7_DeletedExactlyOnce ==
    /\ deletes <= 1
    /\ (taskState = "deleted" /\ cpc = "idle") => deletes = 1

(***************************************************************************)
(* C8  Configurable stall window, as claimed: once setInterval has set     *)
(* readInterval, a stall check reconfigures the frame source exactly when  *)
(* more than readInterval has elapsed since lastReadTime.                  *)
(***************************************************************************)
C8_WindowIsReadInterval ==
    [][ (StallStep /\ readInterval \in Intervals)
            => (wpc' = "rotate" <=> U32Gt(U32Sub(now, lastReadTime), U32(readInterval)))
      ]_vars

(***************************************************************************)
(* C8 amended  The stall window is the fixed 30 seconds: a stall check     *)
(* reconfigures the frame source exactly when more than 30000 ms have      *)
(* elapsed since lastReadTime, whatever setInterval stored, and            *)
(* setInterval changes nothing but readInterval.                           *)
(***************************************************************************)
C8_WindowIsFixed ==
    [][ /\ StallStep
              => (wpc' = "rotate" <=> U32Gt(U32Sub(now, lastReadTime), U32(30000)))
        /\ (Running /\ wpc # "rotate" /\ wpc' = "rotate") => StallStep
        /\ readInterval' # readInterval
              => UNCHANGED <<now, taskHandle, shouldRun, p1DataQueue, lastReadTime,
                             baudRateIx, lastDecodedData, numConfigs, p1Meter, debug,
                             queue, pushed, received, taskState, deletes, wpc, p1data,
                             package, oldPackage, frame, cpc>>
      ]_vars

\* setInterval stored an interval longer than 30 s, and a stall check rotated
\* 30001 ms after the start, before that interval had elapsed
C8_Witness ==
    /\ readInterval \in Intervals
    /\ readInterval > 30001
    /\ numConfigs > 1
    /\ wpc = "delay"
    /\ now = U32(30001)
    /\ lastReadTime = now
    /\ debug.frames = 0
    /\ p1Meter.callbacks = 1
    /\ p1Meter.begins = 2

(***************************************************************************)
(* C9  Unsupported-type safety: a frame of the M-Bus type or of an         *)
(* unrecognised type takes the failure branch of handleFrame, whatever a   *)
(* decoder would have made of it; the steps of that branch increment the   *)
(* failed-frame counter once, leave the success counter and the queue      *)
(* alone and return to the worker loop.                                    *)
(***************************************************************************)
C9_UnsupportedTypeFails ==
    [][ /\ DispatchStep =>
              \A type \in UnsupportedTypes, size \in FrameSizes, decodes \in BOOLEAN :
                  HandleFrame(type, size, decodes) =>
                      /\ UNCHANGED <<debug, queue, pushed>>
                      /\ taskState' = "running"
                      /\ wpc' = "addFailed"
                      /\ frame'.type = type
        /\ (FailedStep /\ frame.type \in UnsupportedTypes) =>
              /\ debug'.failedFrames =
                    debug.failedFrames + (IF wpc = "addFailed" THEN 1 ELSE 0)
              /\ debug'.frames = debug.frames
              /\ UNCHANGED <<queue, pushed>>
              /\ taskState' = "running"
              /\ wpc' \in {"clear", "copy", "stall"}
      ]_vars

\* the failure of an M-Bus or unrecognised frame was counted, with packages queued,
\* and its bytes are being copied to the faulty-frame record
C9_Witness ==
    /\ frame.type \in UnsupportedTypes
    /\ debug.failedFrames > 0
    /\ debug.faultyFrame.seq = frame.seq
    /\ queue # <<>>
    /\ wpc = "copy"

(***************************************************************************)
(* C10  Decode failure leaves state unchanged: the steps of handleFrame on *)
(* a frame that failed to decode change the diagnostics and nothing else:  *)
(* not the queue, lastReadTime, the configuration index, the frame source  *)
(* or the last decoded reading.                                            *)
(***************************************************************************)
C10_FailureKeepsState ==
    [][ ((DispatchStep /\ wpc' = "addFailed") \/ FailedStep) =>
          /\ UNCHANGED <<queue, pushed, received, lastReadTime, baudRateIx,
                         lastDecodedData, p1Meter, now, taskHandle, shouldRun,
                         p1DataQueue, readInterval, numConfigs>>
          /\ debug'.frames = debug.frames
          /\ debug'.configIx = debug.configIx
      ]_vars

\* a frame failed to decode after an earlier reading was queued and stored, at a
\* time when lastReadTime lay in the past
C10_Witness ==
    /\ wpc = "stall"
    /\ debug.failedFrames > 0
    /\ debug.faultyFrame.seq = debug.frames + debug.failedFrames
    /\ queue # <<>>
    /\ lastDecodedData # NoData
    /\ lastReadTime # now

(***************************************************************************)
(* The result of createP1JWTPayload as enqueueData uses it: the true       *)
(* result is the one the code reports with "Failed to create JWT" and      *)
(* drops the reading on (lines 76-78), which is the packaging failure of   *)
(* the packaging boundary ("failure is reported and the reading is         *)
(* dropped"); packaging succeeded when the result is false.                *)
(***************************************************************************)
PackagingSucceeds(jwt) == ~jwt

(***************************************************************************)
(* C11  Packaging outcome: when enqueueData runs on a queue for a decoded  *)
(* reading and packaging succeeds, the push goes on with a package holding *)
(* that reading, and its xQueueSendToBack appends exactly that package at  *)
(* the tail, a reading that no earlier push has appended; when packaging   *)
(* fails, enqueueData returns at once and leaves the queue as it was (no   *)
(* eviction, no append); and nothing is appended to the queue except by    *)
(* the xQueueSendToBack of the push of the current reading, so a dropped   *)
(* reading is not pushed on a later cycle.                                 *)
(***************************************************************************)
C11_PackagingOutcome ==
    [][ /\ \A jwt \in BOOLEAN :
              (p1DataQueue # NULL /\ EnqueueData(jwt)) =>
                  IF PackagingSucceeds(jwt)
                  THEN /\ wpc' \in {"evict", "send"}
                       /\ package'.data = P1JWTPayload(p1data)
                       /\ UNCHANGED <<queue, pushed>>
                  ELSE /\ wpc' = "store"
                       /\ UNCHANGED <<queue, pushed, package, oldPackage>>
        /\ SendStep =>
              /\ package.data = P1JWTPayload(p1data)
              /\ queue' = Append(queue, package)
              /\ pushed' = Append(pushed, P1JWTPayload(p1data))
              /\ \A i \in 1..Len(pushed) : pushed[i] # P1JWTPayload(p1data)
        /\ (pushed' # pushed) => SendStep
        /\ (Len(queue') > Len(queue)) => SendStep
      ]_vars

\* the worker of the only begin() has appended one reading and has dropped a
\* later decoded reading, whose packaging failed, with the queue left as it was
C11_Witness ==
    /\ Running
    /\ p1Meter.callbacks = 1
    /\ p1DataQueue = QUEUE
    /\ wpc = "stall"
    /\ pushed # <<>>
    /\ lastDecodedData.seq > pushed[Len(pushed)]
    /\ queue # <<>>
    /\ queue[Len(queue)].data = pushed[Len(pushed)]

(***************************************************************************)
(* C13  Rotation rate bound: the stall timer is reset on every rotation,   *)
(* so that two consecutive rotations are more than one stall window apart  *)
(* and the first one comes more than a window after boot: in every state   *)
(* the rotations made so far, the calls of p1Meter.begin() that did not    *)
(* come from begin(), took more than a stall window each.                  *)
(***************************************************************************)
C13_RotationRate ==
    p1Meter.begins > p1Meter.callbacks
        => (p1Meter.begins - p1Meter.callbacks) * StallWindow < now[1] * Word + now[2]

(***************************************************************************)
(* C14  Valid configuration index: in every reachable state, across        *)
(* starts, stops, restarts, decodes and rotations, baudRateIx is a         *)
(* position in the candidate set: 0 <= baudRateIx < getNumConfigs(); and   *)
(* the configuration applied to the frame source is such a position too.   *)
(***************************************************************************)
C14_ValidIndex ==
    /\ 0 <= baudRateIx
    /\ baudRateIx < numConfigs
    /\ p1Meter.begins > 0 => (0 <= p1Meter.config /\ p1Meter.config < numConfigs)

\* after a restart the index has reached the last position of the candidate set
C14_Witness ==
    /\ numConfigs = MaxConfigs
    /\ baudRateIx = numConfigs - 1
    /\ p1Meter.callbacks = 2
    /\ taskState = "running"
    /\ debug.frames > 0

(***************************************************************************)
(* C15  Eviction only when full, under concurrency: a step that takes a    *)
(* package out of the queue takes the head and keeps the others in order,  *)
(* and when the queue is below capacity at that moment the package is one  *)
(* handed to the consumer; the eviction of a push removes a package only   *)
(* from a queue that is at capacity.                                       *)
(***************************************************************************)
C15_EvictOnlyWhenFull ==
    [][ /\ Len(queue') < Len(queue) =>
              /\ queue' = Tail(queue)
              /\ Len(queue) < QueueCap => received' = Append(received, Head(queue).data)
        /\ (EvictStep /\ queue' # queue) => Len(queue) = QueueCap
      ]_vars

(***************************************************************************)
(* C16  Push never fails on capacity: with the worker as the only producer *)
(* and consumer pops at any point, every call of enqueueData on a queue    *)
(* whose packaging succeeded goes on to the queue operations; the worker   *)
(* reaches xQueueSendToBack only with a free slot in the queue; and every  *)
(* xQueueSendToBack returns pdPASS at once with the package appended at    *)
(* the tail, so the branch that waits for the timeout and logs the failure *)
(* is never taken.                                                         *)
(***************************************************************************)
C16_PushAppends ==
    [][ /\ \A jwt \in BOOLEAN :
              (p1DataQueue # NULL /\ PackagingSucceeds(jwt) /\ EnqueueData(jwt))
                  => wpc' \in {"evict", "send"}
        /\ (Running /\ wpc' = "send") => Len(queue') < QueueCap
        /\ (Running /\ wpc \in {"evict", "send"} /\ wpc' # wpc)
              => (EvictStep \/ SendStep \/ ~Running')
        /\ SendStep =>
              /\ queue' = Append(queue, package)
              /\ pushed' = Append(pushed, package.data)
              /\ now' = now
      ]_vars

\* a push that found the queue full, with a consumer pop between its test and
\* its eviction, has ended with its package at the tail
C16_Witness ==
    /\ Running
    /\ wpc = "store"
    /\ Len(pushed) = QueueCap + 1
    /\ Len(received) = 1
    /\ Len(queue) = 1
    /\ queue[1].data = pushed[QueueCap + 1]
    /\ queue[1].data = P1JWTPayload(p1data)

(***************************************************************************)
(* C18  Stop does not tear a push: the worker is not deleted by stop()     *)
(* between the eviction of a push and its append, so a worker that has     *)
(* evicted a package goes on to append the package that caused the         *)
(* eviction.                                                               *)
(***************************************************************************)
C18_StopKeepsPushWhole ==
    [][ (Running /\ wpc = "send" /\ oldPackage # NoPackage)
            => (Running' /\ wpc' \in {"send", "store"})
      ]_vars

(***************************************************************************)
(* C17  No premature rotation after start: with begin() first called at    *)
(* EpochStart, the frame source of the first run is not reconfigured by a  *)
(* rotation until more than a stall window has elapsed since that start.   *)
(***************************************************************************)
C17_NoEarlyRotation ==
    (p1Meter.callbacks = 1 /\ p1Meter.begins > 1)
        => U32Gt(U32Sub(now, EpochStart), U32(StallWindow))

(***************************************************************************)
(* C20  Clock wrap-around: a stall check rotates the configuration exactly *)
(* when the time truly elapsed since lastReadTime, counted without the     *)
(* wrap, exceeds 30000 ms, also when the counter has wrapped past zero     *)
(* between lastReadTime and now.  The elapsed time is below 2^32 ms: a     *)
(* lastReadTime still at the constructor's 0 is the time of boot,          *)
(* 2^32 - WrapLead ms before EpochStart, and is looked at only before the  *)
(* wrap.                                                                   *)
(***************************************************************************)
C20_WrapSafe ==
    [][ StallStep =>
          IF lastReadTime = Zero32
          THEN Offset(now) < WrapLead => wpc' = "rotate"
          ELSE wpc' = "rotate" <=> Offset(now) - Offset(lastReadTime) > 30000
      ]_vars

\* no frame was decoded; lastReadTime was set before the wrap, at EpochStart, and
\* the stall check StepB later, after the wrap, has rotated
C20_Witness ==
    /\ numConfigs > 1
    /\ debug.frames = 0
    /\ p1Meter.callbacks = 1
    /\ p1Meter.begins = 3
    /\ wpc = "delay"
    /\ now = U32(StepB - WrapLead)
    /\ lastReadTime = now

(***************************************************************************)
(* C12  Only stop ends the loop: when stop() is never requested, a worker  *)
(* that was started is never deleted and never leaves the loop, and from   *)
(* every point of its run it reaches the poll, the stall check and the     *)
(* delay of the loop again, whatever p1Meter.begin, the decoders,          *)
(* createP1JWTPayload and the queue returned.                              *)
(***************************************************************************)
C12_OnlyStopEndsLoop ==
    /\ [](taskState # "deleted" /\ wpc # "exit")
    /\ [](Running => shouldRun)
    /\ []<>(~Running \/ wpc = "update")
    /\ []<>(~Running \/ wpc = "stall")
    /\ []<>(~Running \/ wpc = "delay")

\* the worker is at the top of its loop again after a frame that failed to decode,
\* a decoded reading that was not queued, and a rotation
C12_Witness ==
    /\ Running
    /\ shouldRun
    /\ wpc = "loop"
    /\ p1DataQueue = QUEUE
    /\ debug.failedFrames > 0
    /\ lastDecodedData # NoData
    /\ pushed = <<>>
    /\ p1Meter.begins > 2

(***************************************************************************)
(* C19  Recovery liveness: when the worker keeps running, time advances    *)
(* and no frame is ever decoded, then with more than one configuration     *)
(* every configuration of the candidate set is applied to the frame source *)
(* again and again.                                                        *)
(***************************************************************************)
C19_RecoveryLiveness ==
    \A i \in 0..(MaxConfigs - 1) :
        [](debug.frames = 0) =>
            []((Running /\ numConfigs > 1 /\ i < numConfigs) => <>(p1Meter.config = i))

\* no frame was decoded and the rotation has gone twice through all configurations
C19_Witness ==
    /\ numConfigs = MaxConfigs
    /\ debug.frames = 0
    /\ Running
    /\ p1Meter.begins = 2 * MaxConfigs + 1
    /\ p1Meter.config = 0
    /\ baudRateIx = 0

====
